---- MODULE Spec2Model ----
(***************************************************************************)
(* Frame time log analysis (scripts/analyze_frametimes.py).                *)
(*                                                                         *)
(* FrameTimeResult.from_file is modelled stage by stage (parse, drop       *)
(* front, duration cap, statistics), followed by fps_over_time, under      *)
(* Spec.  main's loop over datasets and log files is modelled under        *)
(* SpecMain.                                                               *)
(*                                                                         *)
(* Durations are integers of nanoseconds, as in the log.  A quantity the   *)
(* script holds in milliseconds (a float, nanoseconds / 10**6) is held     *)
(* here as the exact value, split into whole milliseconds, the remaining   *)
(* nanoseconds and hundredths of a nanosecond: the rounding of binary      *)
(* floating point is not modelled.                                         *)
(***************************************************************************)
EXTENDS Integers, Sequences, FiniteSets, TLC

VARIABLES
    \* arguments of from_file
    log, gameplay_state, gameplay_duration, drop_first_seconds,
    \* position in from_file / fps_over_time
    pc,
    \* fields of the FrameTimeResult under construction
    raw_frametimes, frame_states, state_to_duration_ms,
    total_duration_ms, average_frametime_ms, percentile_frametime_ms,
    \* value returned by fps_over_time
    bins,
    \* main: command line, loop position, collected results, output
    datasets, ds_idx, file_idx, results, main_pc, reports

vars == <<log, gameplay_state, gameplay_duration, drop_first_seconds, pc,
          raw_frametimes, frame_states, state_to_duration_ms,
          total_duration_ms, average_frametime_ms, percentile_frametime_ms,
          bins, datasets, ds_idx, file_idx, results, main_pc, reports>>

fileVars == <<log, gameplay_state, gameplay_duration, drop_first_seconds, pc,
              raw_frametimes, frame_states, state_to_duration_ms,
              total_duration_ms, average_frametime_ms,
              percentile_frametime_ms, bins>>

mainVars == <<datasets, ds_idx, file_idx, results, main_pc, reports>>

(***************************************************************************)
(* Program constants.                                                      *)
(***************************************************************************)
NanosPerSecond == 1000000000
NonosPerMilli == 1000000
MillisPerSecond == 1000

(***************************************************************************)
(* Bounds of the explored inputs.                                          *)
(***************************************************************************)
\* data rows of a log
MaxRows == 3
\* total duration of the rows of a log, in nanoseconds
MaxLogNanos == 2 * NanosPerSecond
FrameTimeValues == {250000000, 500000000, 1000000000}
StateValues == {0, 1}
SecondsValues == {0, 1, 2}

\* An optional argument: <<>> is None, <<v>> is the value v.
None == <<>>
Some(v) == <<v>>
Optional(S) == {None} \cup {Some(v) : v \in S}

(***************************************************************************)
(* Sequence helpers.                                                       *)
(***************************************************************************)
RECURSIVE SumSeq(_)
SumSeq(s) == IF s = <<>> THEN 0 ELSE s[1] + SumSeq(Tail(s))

\* s[lo:] of Python, lo >= 0
SliceFrom(s, lo) == SubSeq(s, lo + 1, Len(s))

\* s[:hi] of Python, hi >= 0
SliceTo(s, hi) == SubSeq(s, 1, IF hi < Len(s) THEN hi ELSE Len(s))

Min(a, b) == IF a < b THEN a ELSE b

(***************************************************************************)
(* Millisecond values: whole + nanos / 10^6 + cents / 10^8 milliseconds.   *)
(***************************************************************************)
NaN == [nan |-> TRUE]
IsNaN(m) == m = NaN

\* n nanoseconds / NonosPerMilli
NanosToMillis(n) ==
    [whole |-> n \div NonosPerMilli, nanos |-> n % NonosPerMilli, cents |-> 0]

\* (n + c / 100) nanoseconds / NonosPerMilli
CentiNanosToMillis(n, c) ==
    [whole |-> n \div NonosPerMilli, nanos |-> n % NonosPerMilli, cents |-> c]

MillisAdd(a, b) ==
    LET c == a.cents + b.cents
        n == a.nanos + b.nanos + c \div 100
    IN  [whole |-> a.whole + b.whole + n \div NonosPerMilli,
         nanos |-> n % NonosPerMilli,
         cents |-> c % 100]

MillisLeq(a, b) ==
    \/ a.whole < b.whole
    \/ a.whole = b.whole /\ a.nanos < b.nanos
    \/ a.whole = b.whole /\ a.nanos = b.nanos /\ a.cents <= b.cents

MillisLess(a, b) == MillisLeq(a, b) /\ a # b

ZeroMillis == NanosToMillis(0)

(***************************************************************************)
(* Log rows.  A row is the sequence of its fields; a field is <<v>> when   *)
(* its text is the integer v and <<>> when int() rejects it.               *)
(***************************************************************************)
GoodRow(t, s) == << <<t>>, <<s>> >>
GoodRows == {GoodRow(t, s) : t \in FrameTimeValues, s \in StateValues}
BadRows == { << <<250000000>> >>,
             << <<250000000>>, <<0>>, <<0>> >>,
             << <<250000000>>, <<>> >>,
             << <<>>, <<0>> >> }

RowOk(row) == Len(row) = 2 /\ row[1] # <<>> /\ row[2] # <<>>
RowTime(row) == row[1][1]
RowState(row) == row[2][1]

LogNanos(rows) == SumSeq([i \in 1..Len(rows) |-> RowTime(rows[i])])

RECURSIVE GoodLogsUpTo(_)
GoodLogsUpTo(n) ==
    IF n = 0 THEN {<<>>}
    ELSE LET shorter == GoodLogsUpTo(n - 1)
         IN  shorter \cup
             {Append(sx[1], sx[2]) :
                 sx \in {p \in {t \in shorter : Len(t) = n - 1} \X GoodRows :
                            RowTime(p[2]) <= MaxLogNanos - LogNanos(p[1])}}

GoodLogs == GoodLogsUpTo(MaxRows)

\* Rows after the first rejected row are never read: a malformed log is a
\* well-formed prefix followed by one rejected row.
BadLogs == {Append(l, b) : l \in {g \in GoodLogs : Len(g) < MaxRows}, b \in BadRows}

LogOk(rows) == \A i \in 1..Len(rows) : RowOk(rows[i])

(***************************************************************************)
(* FrameTimeResult.from_file: parsing.                                     *)
(***************************************************************************)
\* line 78: the frame is kept unless another gameplay state was asked for
KeepFrame(gs, frame_state) == gs = None \/ gs[1] = frame_state

\* lines 74-77: add the frame's milliseconds to its state's entry
AccumulateState(durs, frame_state, frametime_nanos) ==
    LET old == IF frame_state \in DOMAIN durs THEN durs[frame_state] ELSE ZeroMillis
    IN  [s \in DOMAIN durs \cup {frame_state} |->
            IF s = frame_state THEN MillisAdd(old, NanosToMillis(frametime_nanos))
            ELSE durs[s]]

\* the loop body for one well-formed data row, lines 71-82
ParseRow_FilterFirst(acc, row, gs) ==
    IF KeepFrame(gs, RowState(row))
    THEN [times  |-> Append(acc.times, RowTime(row)),
          states |-> Append(acc.states, RowState(row)),
          durs   |-> AccumulateState(acc.durs, RowState(row), RowTime(row))]
    ELSE acc

ParseRow(acc, row, gs) ==
    LET durs == AccumulateState(acc.durs, RowState(row), RowTime(row))
    IN  IF KeepFrame(gs, RowState(row))
        THEN [times  |-> Append(acc.times, RowTime(row)),
              states |-> Append(acc.states, RowState(row)),
              durs   |-> durs]
        ELSE [acc EXCEPT !.durs = durs]

EmptyDurs == [s \in {} |-> ZeroMillis]

\* the loop of lines 66-82 over data rows 1..n, all of them well-formed
RECURSIVE ParseRows(_, _, _)
ParseRows(rows, n, gs) ==
    IF n = 0 THEN [times |-> <<>>, states |-> <<>>, durs |-> EmptyDurs]
    ELSE ParseRow(ParseRows(rows, n - 1, gs), rows[n], gs)

(***************************************************************************)
(* from_file: dropping the first seconds, lines 84-96.                     *)
(***************************************************************************)
\* line 90
DropReached_Strict(curr_duration, drop_first_nanos) == curr_duration > drop_first_nanos

DropReached(curr_duration, drop_first_nanos) == curr_duration >= drop_first_nanos

\* lines 86-93: the value of drop_end when the loop is left, started at
\* frame i (1-based) with curr_duration accumulated so far
RECURSIVE DropEndFrom(_, _, _, _)
DropEndFrom(frames, i, curr_duration, drop_first_nanos) ==
    IF i > Len(frames) THEN i - 1
    ELSE LET curr == curr_duration + frames[i]
         IN  IF DropReached(curr, drop_first_nanos) THEN i - 1
             ELSE DropEndFrom(frames, i + 1, curr, drop_first_nanos)

DropEnd_PastCrossing(frames, drop_first_seconds_) ==
    Min(Len(frames), DropEndFrom(frames, 1, 0, drop_first_seconds_ * NanosPerSecond) + 1)

DropEnd(frames, drop_first_seconds_) ==
    DropEndFrom(frames, 1, 0, drop_first_seconds_ * NanosPerSecond)

\* line 95
DropFrontTimes(frames, dfs) ==
    IF dfs = None THEN frames ELSE SliceFrom(frames, DropEnd(frames, dfs[1]))

\* line 96
DropFrontStates_Unsliced(states, frames, dfs) == states

DropFrontStates(states, frames, dfs) ==
    IF dfs = None THEN states ELSE SliceFrom(states, DropEnd(frames, dfs[1]))

(***************************************************************************)
(* from_file: capping the duration, lines 98-109.                          *)
(***************************************************************************)
\* line 105
CapExceeded_OrReached(curr_duration, target_duration_nanos) ==
    curr_duration >= target_duration_nanos

CapExceeded(curr_duration, target_duration_nanos) ==
    curr_duration > target_duration_nanos

\* lines 100-106: the value of first_frame_to_discard when the loop is left
RECURSIVE FirstToDiscardFrom(_, _, _, _)
FirstToDiscardFrom(frames, i, curr_duration, target_duration_nanos) ==
    IF i > Len(frames) THEN i - 1
    ELSE LET curr == curr_duration + frames[i]
         IN  IF CapExceeded(curr, target_duration_nanos) THEN i
             ELSE FirstToDiscardFrom(frames, i + 1, curr, target_duration_nanos)

FirstFrameToDiscard(frames, gameplay_duration_) ==
    FirstToDiscardFrom(frames, 1, 0, gameplay_duration_ * NanosPerSecond)

\* line 108
CapTimes(frames, gd) ==
    IF gd = None THEN frames ELSE SliceTo(frames, FirstFrameToDiscard(frames, gd[1]))

\* line 109
CapStates(states, frames, gd) ==
    IF gd = None THEN states ELSE SliceTo(states, FirstFrameToDiscard(frames, gd[1]))

(***************************************************************************)
(* from_file: statistics, lines 111-114.                                   *)
(***************************************************************************)
\* s with x inserted after the last element <= x (s sorted ascending)
RECURSIVE InsertSorted(_, _)
InsertSorted(s, x) ==
    IF s = <<>> THEN <<x>>
    ELSE IF x < s[1] THEN <<x>> \o s
    ELSE <<s[1]>> \o InsertSorted(Tail(s), x)

RECURSIVE SortAscending(_)
SortAscending(s) == IF s = <<>> THEN <<>> ELSE InsertSorted(SortAscending(SliceTo(s, Len(s) - 1)), s[Len(s)])

\* a variant that takes the virtual index p / 100 * n
PercentileNanos_RankN(sorted, p) ==
    LET n      == Len(sorted)
        lo     == (p * n) \div 100
        k      == (p * n) % 100
        below  == sorted[lo + 1]
        above  == IF lo + 2 <= n THEN sorted[lo + 2] ELSE below
        d      == above - below
        part   == k * (d % 100)
    IN  [nanos |-> below + k * (d \div 100) + part \div 100, cents |-> part % 100]

\* np.percentile(a, p) for the sorted, non-empty a, in nanoseconds and
\* hundredths: linear interpolation at the virtual index p / 100 * (n - 1)
PercentileNanos(sorted, p) ==
    LET n      == Len(sorted)
        lo     == (p * (n - 1)) \div 100
        k      == (p * (n - 1)) % 100
        below  == sorted[lo + 1]
        above  == IF lo + 2 <= n THEN sorted[lo + 2] ELSE below
        d      == above - below
        \* k * d / 100, computed in two parts to stay in range
        part   == k * (d % 100)
    IN  [nanos |-> below + k * (d \div 100) + part \div 100, cents |-> part % 100]

\* line 114, one entry
PercentileMillis(sorted, p) ==
    LET v == PercentileNanos(sorted, p)
    IN  CentiNanosToMillis(v.nanos, v.cents)

\* lines 113-114: the list indexed by p = 0..99
PercentileTable(frames) ==
    LET sorted == SortAscending(frames)
    IN  [p \in 0..99 |-> PercentileMillis(sorted, p)]

NaNTable == [p \in 0..99 |-> NaN]

\* line 111
TotalDurationMs(frames) == NanosToMillis(SumSeq(frames))

\* line 112: sum / n nanoseconds, over NonosPerMilli, kept as a fraction
AverageFrametimeMs(frames) ==
    [num |-> SumSeq(frames), den |-> Len(frames) * NonosPerMilli]

(***************************************************************************)
(* FrameTimeResult.fps_over_time, lines 146-160.                           *)
(***************************************************************************)
\* line 147
DurationS_NoExtra(total_ms) == total_ms.whole \div 1000

DurationS_TwoExtra(total_ms) == total_ms.whole \div 1000 + 2

DurationS(total_ms) == total_ms.whole \div 1000 + 1

\* line 154
BinIdx(curr_duration_ns) == curr_duration_ns \div NanosPerSecond

\* lines 152-158 for frames 1..n; a bin is <<frame count, frame state>> and
\* bins_[k + 1] is the script's bins[k].  raised: bins[bin_idx] was out of range.
RECURSIVE FillBins(_, _, _, _)
FillBins(frames, states, n, duration_s) ==
    IF n = 0
    THEN [raised |-> FALSE, bins |-> [k \in 1..duration_s |-> <<0, 0>>]]
    ELSE LET before  == FillBins(frames, states, n - 1, duration_s)
             bin_idx == BinIdx(SumSeq(SliceTo(frames, n)))
         IN  IF before.raised \/ bin_idx >= duration_s
             THEN [raised |-> TRUE, bins |-> before.bins]
             ELSE [raised |-> FALSE,
                   bins |-> [before.bins EXCEPT ![bin_idx + 1] =
                                <<before.bins[bin_idx + 1][1] + 1, states[n]>>]]

\* raised: the assert of line 151 or the index of line 158 failed
FpsOverTime(frames, states, total_ms) ==
    IF Len(frames) # Len(states) THEN [raised |-> TRUE, bins |-> <<>>]
    ELSE FillBins(frames, states, Len(frames), DurationS(total_ms))

(***************************************************************************)
(* One call of from_file followed by fps_over_time on its result.          *)
(***************************************************************************)
MinusOneMillis == [whole |-> -1, nanos |-> 0, cents |-> 0]

\* FrameTimeResult.__init__, lines 37-45
InitResult ==
    /\ raw_frametimes = <<>>
    /\ frame_states = <<>>
    /\ total_duration_ms = MinusOneMillis
    /\ average_frametime_ms = MinusOneMillis
    /\ percentile_frametime_ms = <<>>
    /\ state_to_duration_ms = EmptyDurs
    /\ bins = <<>>

MainIdle ==
    /\ datasets = <<>>
    /\ ds_idx = 0
    /\ file_idx = 0
    /\ results = <<>>
    /\ main_pc = "idle"
    /\ reports = <<>>

Init ==
    /\ log \in GoodLogs \cup BadLogs
    /\ gameplay_state \in Optional(StateValues)
    /\ gameplay_duration \in Optional(SecondsValues)
    /\ drop_first_seconds \in Optional(SecondsValues)
    /\ pc = "start"
    /\ InitResult
    /\ MainIdle

\* lines 64-82, every row accepted
Parse ==
    /\ pc = "start"
    /\ LogOk(log)
    /\ LET parsed == ParseRows(log, Len(log), gameplay_state)
       IN  /\ raw_frametimes' = parsed.times
           /\ frame_states' = parsed.states
           /\ state_to_duration_ms' = parsed.durs
    /\ pc' = "parsed"
    /\ UNCHANGED <<log, gameplay_state, gameplay_duration, drop_first_seconds,
                   total_duration_ms, average_frametime_ms,
                   percentile_frametime_ms, bins, mainVars>>

\* lines 69-72: the assert or int() raises on the first rejected row and the
\* result under construction is lost
ParseRaises ==
    /\ pc = "start"
    /\ ~LogOk(log)
    /\ pc' = "raised"
    /\ UNCHANGED <<log, gameplay_state, gameplay_duration, drop_first_seconds,
                   raw_frametimes, frame_states, state_to_duration_ms,
                   total_duration_ms, average_frametime_ms,
                   percentile_frametime_ms, bins, mainVars>>

\* lines 84-96
DropFront ==
    /\ pc = "parsed"
    /\ raw_frametimes' = DropFrontTimes(raw_frametimes, drop_first_seconds)
    /\ frame_states' = DropFrontStates(frame_states, raw_frametimes, drop_first_seconds)
    /\ pc' = "dropped"
    /\ UNCHANGED <<log, gameplay_state, gameplay_duration, drop_first_seconds,
                   state_to_duration_ms, total_duration_ms, average_frametime_ms,
                   percentile_frametime_ms, bins, mainVars>>

\* lines 98-109
DurationCap ==
    /\ pc = "dropped"
    /\ raw_frametimes' = CapTimes(raw_frametimes, gameplay_duration)
    /\ frame_states' = CapStates(frame_states, raw_frametimes, gameplay_duration)
    /\ pc' = "capped"
    /\ UNCHANGED <<log, gameplay_state, gameplay_duration, drop_first_seconds,
                   state_to_duration_ms, total_duration_ms, average_frametime_ms,
                   percentile_frametime_ms, bins, mainVars>>

\* lines 111-116, at least one frame retained
Stats ==
    /\ pc = "capped"
    /\ raw_frametimes # <<>>
    /\ total_duration_ms' = TotalDurationMs(raw_frametimes)
    /\ average_frametime_ms' = AverageFrametimeMs(raw_frametimes)
    /\ percentile_frametime_ms' = PercentileTable(raw_frametimes)
    /\ pc' = "returned"
    /\ UNCHANGED <<log, gameplay_state, gameplay_duration, drop_first_seconds,
                   raw_frametimes, frame_states, state_to_duration_ms, bins,
                   mainVars>>

\* lines 111-116, no frame retained: np.sum gives 0, np.average gives nan, and
\* np.percentile of an empty array gives nan or raises IndexError, by the
\* numpy release
StatsEmpty ==
    /\ pc = "capped"
    /\ raw_frametimes = <<>>
    /\ \/ /\ total_duration_ms' = TotalDurationMs(raw_frametimes)
          /\ average_frametime_ms' = NaN
          /\ percentile_frametime_ms' = NaNTable
          /\ pc' = "returned"
       \/ /\ pc' = "raised"
          /\ UNCHANGED <<total_duration_ms, average_frametime_ms,
                         percentile_frametime_ms>>
    /\ UNCHANGED <<log, gameplay_state, gameplay_duration, drop_first_seconds,
                   raw_frametimes, frame_states, state_to_duration_ms, bins,
                   mainVars>>

\* lines 146-160 on the returned result
CallFpsOverTime ==
    /\ pc = "returned"
    /\ LET r == FpsOverTime(raw_frametimes, frame_states, total_duration_ms)
       IN  /\ bins' = r.bins
           /\ pc' = IF r.raised THEN "fps_raised" ELSE "binned"
    /\ UNCHANGED <<log, gameplay_state, gameplay_duration, drop_first_seconds,
                   raw_frametimes, frame_states, state_to_duration_ms,
                   total_duration_ms, average_frametime_ms,
                   percentile_frametime_ms, mainVars>>

Next ==
    \/ Parse
    \/ ParseRaises
    \/ DropFront
    \/ DurationCap
    \/ Stats
    \/ StatsEmpty
    \/ CallFpsOverTime

Spec == Init /\ [][Next]_vars

(***************************************************************************)
(* Properties of from_file and fps_over_time, checked under Spec.          *)
(***************************************************************************)
AfterParse == pc \in {"parsed", "dropped", "capped", "returned", "binned"}
Returned == pc \in {"returned", "binned"}

\* the data rows the gameplay_state filter lets through, in log order
KeptRow(row) == gameplay_state = None \/ RowState(row) = gameplay_state[1]
KeptRows == SelectSeq(log, KeptRow)
KeptTimes == [i \in 1..Len(KeptRows) |-> RowTime(KeptRows[i])]
KeptStates == [i \in 1..Len(KeptRows) |-> RowState(KeptRows[i])]

\* cumulative duration of frames 1..k
CumNanos(frames, k) == SumSeq(SubSeq(frames, 1, k))

MinOf(S) == CHOOSE x \in S : \A y \in S : x <= y

\* C1: raw_frametimes and frame_states have the same length after parsing,
\* after the drop-front step and after the duration-cap step, and entry i of
\* both comes from the same log row: both are the same window a+1..b of the
\* rows the state filter kept (the whole of them right after parsing).
C1_Aligned ==
    AfterParse =>
        /\ Len(raw_frametimes) = Len(frame_states)
        /\ \E a \in 0..Len(KeptRows) : \E b \in a..Len(KeptRows) :
              /\ raw_frametimes = SubSeq(KeptTimes, a + 1, b)
              /\ frame_states = SubSeq(KeptStates, a + 1, b)
              /\ pc = "parsed" => a = 0 /\ b = Len(KeptRows)

C1_Witness ==
    /\ pc = "capped"
    /\ drop_first_seconds # None /\ gameplay_duration # None
    /\ gameplay_state = None
    /\ Len(raw_frametimes) = 2
    /\ Len(log) = MaxRows
    /\ frame_states[1] # frame_states[2]

\* C2: the drop-front step keeps the suffix that starts at the first frame
\* whose cumulative duration is >= drop_first_seconds * 1e9 (that frame is
\* kept, exactly the frames before it are dropped); with drop_first_seconds
\* 0 or None the frames are left as they were.
C2_DropFrontSuffix ==
    [][pc = "parsed" /\ pc' = "dropped" =>
        /\ drop_first_seconds \in {None, Some(0)} => raw_frametimes' = raw_frametimes
        /\ drop_first_seconds # None =>
              LET T == drop_first_seconds[1] * NanosPerSecond
                  K == {k \in 1..Len(raw_frametimes) : CumNanos(raw_frametimes, k) >= T}
              IN  K # {} =>
                     raw_frametimes' =
                         SubSeq(raw_frametimes, MinOf(K), Len(raw_frametimes))
      ]_vars

C2_Witness ==
    /\ pc = "dropped"
    /\ drop_first_seconds = Some(1)
    /\ raw_frametimes # <<>>
    /\ Len(raw_frametimes) < Len(KeptTimes)
    /\ CumNanos(KeptTimes, Len(KeptTimes) - Len(raw_frametimes) + 1) = NanosPerSecond

\* C3: the duration-cap step keeps the prefix that ends at (and includes) the
\* first frame whose cumulative duration is > gameplay_duration * 1e9, and
\* keeps every frame when the cumulative duration never exceeds it.
C3_DurationCapPrefix ==
    [][pc = "dropped" /\ pc' = "capped" /\ gameplay_duration # None =>
        LET T == gameplay_duration[1] * NanosPerSecond
            K == {k \in 1..Len(raw_frametimes) : CumNanos(raw_frametimes, k) > T}
        IN  raw_frametimes' =
                IF K = {} THEN raw_frametimes
                ELSE SubSeq(raw_frametimes, 1, MinOf(K))
      ]_vars

C3_Witness ==
    /\ pc = "capped"
    /\ gameplay_duration = Some(1)
    /\ drop_first_seconds = None
    /\ Len(raw_frametimes) < Len(KeptTimes)
    /\ Len(raw_frametimes) >= 2
    /\ CumNanos(raw_frametimes, Len(raw_frametimes) - 1) = NanosPerSecond

\* C4 as claimed: applying the drop-front step to its own output, with the
\* same threshold, returns that output unchanged.
C4_DropFrontIdempotent ==
    pc = "dropped" =>
        DropFrontTimes(raw_frametimes, drop_first_seconds) = raw_frametimes

\* C4 amended: a second drop-front with the same threshold returns the
\* output of the first unchanged exactly when that output is empty or its
\* first frame alone lasts the threshold or longer (always so for 0 and None).
C4_DropFrontTwice ==
    pc = "dropped" =>
        LET again == DropFrontTimes(raw_frametimes, drop_first_seconds)
        IN  IF drop_first_seconds = None THEN again = raw_frametimes
            ELSE (again = raw_frametimes) <=>
                    \/ raw_frametimes = <<>>
                    \/ raw_frametimes[1] >= drop_first_seconds[1] * NanosPerSecond

C4_Witness ==
    /\ pc = "dropped"
    /\ drop_first_seconds = Some(1)
    /\ raw_frametimes # <<>>
    /\ Len(raw_frametimes) < Len(KeptTimes)
    /\ raw_frametimes[1] >= NanosPerSecond
    /\ DropFrontTimes(raw_frametimes, drop_first_seconds) = raw_frametimes

RECURSIVE SumMillisOver(_, _)
SumMillisOver(f, S) ==
    IF S = {} THEN ZeroMillis
    ELSE LET x == CHOOSE y \in S : TRUE
         IN  MillisAdd(f[x], SumMillisOver(f, S \ {x}))

SumStateDurations == SumMillisOver(state_to_duration_ms, DOMAIN state_to_duration_ms)

\* C5 as claimed: the state durations add up to total_duration_ms, whatever
\* gameplay_state, drop_first_seconds and gameplay_duration are.
C5_StateSumIsTotal == Returned => SumStateDurations = total_duration_ms

\* C5 amended: the state durations add up to the duration of all data rows
\* of the log; that is total_duration_ms when every data row was retained
\* (none removed by the state filter, the drop-front or the duration cap).
C5_StateSumIsLogTotal ==
    Returned =>
        /\ SumStateDurations = NanosToMillis(LogNanos(log))
        /\ Len(raw_frametimes) = Len(log) => SumStateDurations = total_duration_ms

C5_Witness ==
    /\ pc = "returned"
    /\ Len(raw_frametimes) = Len(log)
    /\ Len(log) = MaxRows
    /\ DOMAIN state_to_duration_ms = StateValues

\* the durations of the data rows tagged s
TimesOfState(s) ==
    LET Tagged(row) == RowState(row) = s
        rows == SelectSeq(log, Tagged)
    IN  [i \in 1..Len(rows) |-> RowTime(rows[i])]

\* C6: state_to_duration_ms[s] is the sum of the durations of all data rows
\* tagged s, whatever gameplay_state is, even when raw_frametimes holds the
\* frames of one state only.
C6_StateDurationsFromAllRows ==
    AfterParse =>
        /\ DOMAIN state_to_duration_ms = {RowState(log[i]) : i \in 1..Len(log)}
        /\ \A s \in DOMAIN state_to_duration_ms :
              state_to_duration_ms[s] = NanosToMillis(SumSeq(TimesOfState(s)))

C6_Witness ==
    /\ pc = "returned"
    /\ gameplay_state = Some(0)
    /\ raw_frametimes # <<>>
    /\ 1 \in DOMAIN state_to_duration_ms
    /\ state_to_duration_ms[1] # ZeroMillis
    /\ Len(raw_frametimes) < Len(log)

\* the frames whose bucket index is k
FramesInBucket(k) ==
    {i \in 1..Len(raw_frametimes) : CumNanos(raw_frametimes, i) \div NanosPerSecond = k}

RECURSIVE SumCounts(_)
SumCounts(bs) == IF bs = <<>> THEN 0 ELSE bs[1][1] + SumCounts(Tail(bs))

\* C7: fps_over_time counts every retained frame exactly once: each frame's
\* bucket index floor(cumulative ns / 1e9) is an index of the allocated bins
\* (no IndexError), bucket k counts the frames of index k, and the counts add
\* up to len(raw_frametimes).
C7_EveryFrameCountedOnce ==
    /\ pc # "fps_raised"
    /\ pc = "binned" =>
          /\ \A i \in 1..Len(raw_frametimes) :
                CumNanos(raw_frametimes, i) \div NanosPerSecond \in 0..(Len(bins) - 1)
          /\ \A k \in 0..(Len(bins) - 1) : bins[k + 1][1] = Cardinality(FramesInBucket(k))
          /\ SumCounts(bins) = Len(raw_frametimes)

C7_Witness ==
    /\ pc = "binned"
    /\ Len(raw_frametimes) = MaxRows
    /\ Len(bins) >= 2
    /\ bins[1][1] >= 1
    /\ bins[Len(bins)][1] >= 1

\* ceil(m / 1000) for a millisecond value m >= 0
CeilSeconds(m) ==
    m.whole \div 1000 + (IF m.whole % 1000 = 0 /\ m.nanos = 0 /\ m.cents = 0 THEN 0 ELSE 1)

\* ceil(total_duration_ms / 1000) + 1 buckets, less the last when no frame
\* falls into it
ClaimedBucketCount ==
    LET c == CeilSeconds(total_duration_ms) + 1
    IN  IF FramesInBucket(c - 1) = {} THEN c - 1 ELSE c

FromFile(rows, gs, gd, dfs) ==
    IF ~LogOk(rows) THEN [raised |-> TRUE]
    ELSE LET parsed  == ParseRows(rows, Len(rows), gs)
             dropped == DropFrontTimes(parsed.times, dfs)
             dstates == DropFrontStates(parsed.states, parsed.times, dfs)
             frames  == CapTimes(dropped, gd)
             states  == CapStates(dstates, dropped, gd)
         IN  [raised |-> FALSE,
              raw_frametimes |-> frames,
              frame_states |-> states,
              state_to_duration_ms |-> parsed.durs,
              total_duration_ms |-> TotalDurationMs(frames),
              average_frametime_ms |-> AverageFrametimeMs(frames),
              percentile_frametime_ms |-> PercentileTable(frames)]

\* lines 118-120 and 130-131
P50(result) == result.percentile_frametime_ms[50]

\* sorted(results, key=lambda x: x.median()), lines 191 and 271: a stable
\* sort; r goes before the first run whose median is greater
RECURSIVE InsertByMedian(_, _)
InsertByMedian(sorted, r) ==
    IF sorted = <<>> THEN <<r>>
    ELSE IF MillisLess(P50(r), P50(sorted[1])) THEN <<r>> \o sorted
    ELSE <<sorted[1]>> \o InsertByMedian(Tail(sorted), r)

RECURSIVE SortedByMedian(_)
SortedByMedian(rs) ==
    IF rs = <<>> THEN <<>>
    ELSE InsertByMedian(SortedByMedian(SliceTo(rs, Len(rs) - 1)), rs[Len(rs)])

\* line 272, the index of median_res
MedianIdx_Lower(n) == (n - 1) \div 2

MedianIdx(n) == n \div 2

\* line 277: int(n * 0.05)
LowP5Idx(n) == (n * 5) \div 100

\* line 278: int(n * 0.95)
HighP95Idx(n) == (n * 95) \div 100

\* lines 288-289: the rows written to <dataset>_fps.csv
FpsCsvRows(x, y, z) ==
    [i \in 1..Min(Len(x), Min(Len(y), Len(z))) |->
        <<i - 1, x[i][1], x[i][2], y[i][1], y[i][2], z[i][1], z[i][2]>>]

FpsOf(result) ==
    FpsOverTime(result.raw_frametimes, result.frame_states, result.total_duration_ms)

\* lines 271-290 for the results of one dataset, at least one of them
DatasetReport(rs) ==
    LET sorted_results == SortedByMedian(rs)
        n              == Len(sorted_results)
        median_res     == sorted_results[MedianIdx(n) + 1]
        low_p5_idx     == LowP5Idx(n)
        high_p95_idx   == HighP95Idx(n)
        p5_fps         == FpsOf(sorted_results[low_p5_idx + 1])
        median_fps     == FpsOf(median_res)
        p95_fps        == FpsOf(sorted_results[high_p95_idx + 1])
    IN  [size          |-> Len(rs),
         medians       |-> [i \in 1..n |-> P50(sorted_results[i])],
         low_p5_idx    |-> low_p5_idx,
         median_idx    |-> MedianIdx(n),
         high_p95_idx  |-> high_p95_idx,
         low_median    |-> P50(sorted_results[low_p5_idx + 1]),
         median_median |-> P50(median_res),
         high_median   |-> P50(sorted_results[high_p95_idx + 1]),
         fps_raised    |-> p5_fps.raised \/ median_fps.raised \/ p95_fps.raised,
         fps_csv       |-> FpsCsvRows(p5_fps.bins, median_fps.bins, p95_fps.bins)]

FileIdle ==
    /\ log = <<>>
    /\ pc = "idle"
    /\ InitResult

\* line 246, from_file returns
MainFromFile ==
    /\ main_pc = "files"
    /\ file_idx <= Len(datasets[ds_idx])
    /\ LET r == FromFile(datasets[ds_idx][file_idx], gameplay_state,
                         gameplay_duration, drop_first_seconds)
       IN  /\ ~r.raised
           /\ results' = Append(results, r)
    /\ file_idx' = file_idx + 1
    /\ UNCHANGED <<datasets, ds_idx, main_pc, reports, fileVars>>

\* a variant that skips the log from_file raised on
MainFromFileRaises_Skip ==
    /\ main_pc = "files"
    /\ file_idx <= Len(datasets[ds_idx])
    /\ FromFile(datasets[ds_idx][file_idx], gameplay_state,
                gameplay_duration, drop_first_seconds).raised
    /\ file_idx' = file_idx + 1
    /\ UNCHANGED <<datasets, ds_idx, results, main_pc, reports, fileVars>>

\* line 246, from_file raises: nothing in main catches it
MainFromFileRaises ==
    /\ main_pc = "files"
    /\ file_idx <= Len(datasets[ds_idx])
    /\ FromFile(datasets[ds_idx][file_idx], gameplay_state,
                gameplay_duration, drop_first_seconds).raised
    /\ main_pc' = "aborted"
    /\ UNCHANGED <<datasets, ds_idx, file_idx, results, reports, fileVars>>

\* lines 251-291, then the next dataset (lines 241-244) or the end
MainSummarize ==
    /\ main_pc = "files"
    /\ file_idx > Len(datasets[ds_idx])
    /\ results # <<>>
    /\ LET report == DatasetReport(results)
       IN  /\ ~report.fps_raised
           /\ reports' = Append(reports, report)
    /\ ds_idx' = ds_idx + 1
    /\ file_idx' = 1
    /\ results' = <<>>
    /\ main_pc' = IF ds_idx < Len(datasets) THEN "files" ELSE "done"
    /\ UNCHANGED <<datasets, fileVars>>

\* a dataset without log files: sorted_results[0] of line 272 raises at the
\* latest
MainSummarizeRaises ==
    /\ main_pc = "files"
    /\ file_idx > Len(datasets[ds_idx])
    /\ IF results = <<>> THEN TRUE ELSE DatasetReport(results).fps_raised
    /\ main_pc' = "aborted"
    /\ UNCHANGED <<datasets, ds_idx, file_idx, results, reports, fileVars>>

(***************************************************************************)
(* The command lines explored under SpecMain.                              *)
(***************************************************************************)
\* log files of a dataset listed one by one
MaxFiles == 3
\* log files of a dataset built after a pattern
MaxRuns == 20

Ms10 == 10 * NonosPerMilli
Ms20 == 20 * NonosPerMilli
Ms30 == 30 * NonosPerMilli

MainGoodLogs ==
    { <<GoodRow(Ms10, 0)>>, <<GoodRow(Ms20, 0)>>, <<GoodRow(Ms30, 1)>>,
      <<GoodRow(1000000000, 0), GoodRow(500000000, 1)>> }
MainBadLogs == { <<GoodRow(Ms10, 0), <<<<Ms20>>>> >> }

RECURSIVE ListedDatasets(_)
ListedDatasets(n) ==
    IF n = 0 THEN {<<>>}
    ELSE LET shorter == ListedDatasets(n - 1)
         IN  shorter \cup {Append(d, l) : d \in {t \in shorter : Len(t) = n - 1},
                                          l \in MainGoodLogs \cup MainBadLogs}

\* n single-frame logs whose frame times rise, fall or alternate
PatternDataset(pattern, n) ==
    [i \in 1..n |->
        <<GoodRow(CASE pattern = "rising" -> Ms10 * i
                    [] pattern = "falling" -> Ms10 * (n + 1 - i)
                    [] OTHER -> IF i % 2 = 1 THEN Ms20 ELSE Ms10, i % 2)>>]

PatternDatasets ==
    {PatternDataset(pattern, n) :
        pattern \in {"rising", "falling", "alternating"}, n \in (MaxFiles + 1)..MaxRuns}

FirstDatasets == ListedDatasets(MaxFiles) \cup PatternDatasets
LaterDatasets == { <<l>> : l \in {<<GoodRow(Ms20, 0)>>} \cup MainBadLogs }

\* trims that leave every run of the logs above at least one frame
MainArgs ==
    { <<None, None, None>>, <<None, Some(0), Some(0)>> }

InitMain ==
    /\ datasets \in {<<d>> : d \in FirstDatasets}
                    \cup {<<d, e>> : d \in FirstDatasets, e \in LaterDatasets}
    /\ \E a \in MainArgs :
          /\ gameplay_state = a[1]
          /\ gameplay_duration = a[2]
          /\ drop_first_seconds = a[3]
    /\ ds_idx = 1
    /\ file_idx = 1
    /\ results = <<>>
    /\ reports = <<>>
    /\ main_pc = "files"
    /\ FileIdle

NextMain ==
    \/ MainFromFile
    \/ MainFromFileRaises
    \/ MainSummarize
    \/ MainSummarizeRaises

SpecMain == InitMain /\ [][NextMain]_vars

(***************************************************************************)
(* Properties of main, checked under SpecMain.                             *)
(***************************************************************************)
MainStopped == main_pc \in {"aborted", "done"}

\* position <<d, f>> of a log file comes before the file main is at
Passed(d, f) == d < ds_idx \/ (d = ds_idx /\ f < file_idx)

\* C8 as claimed: a malformed log costs only its own run; when main stops,
\* every dataset that has a well-formed log has been summarized.
C8_ParseFailureIsolated ==
    (/\ MainStopped
     /\ \A d \in 1..Len(datasets) : \E f \in 1..Len(datasets[d]) : LogOk(datasets[d][f]))
    => Len(reports) = Len(datasets)

\* C8 amended: a parse failure ends main.  main never gets past a malformed
\* log: every log it has gone past was well-formed, and once from_file raised
\* main stays at that log, with the results and the reports it had: the
\* dataset of the malformed log and the datasets after it are not summarized.
C8_ParseFailureStopsMain ==
    /\ \A d \in 1..Len(datasets) : \A f \in 1..Len(datasets[d]) :
          Passed(d, f) => LogOk(datasets[d][f])
    /\ Len(reports) = (IF main_pc = "done" THEN Len(datasets) ELSE ds_idx - 1)
    /\ main_pc # "done" => Len(results) = file_idx - 1
    /\ (\E d \in 1..Len(datasets) : \E f \in 1..Len(datasets[d]) : ~LogOk(datasets[d][f]))
          => main_pc # "done"

C8_Witness ==
    /\ main_pc = "aborted"
    /\ Len(datasets) = 2
    /\ ds_idx = 1
    /\ file_idx = 1
    /\ Len(datasets[1]) = MaxFiles
    /\ ~LogOk(datasets[1][1])
    /\ \A f \in 2..Len(datasets[1]) : LogOk(datasets[1][f])
    /\ LogOk(datasets[2][1])
    /\ reports = <<>>

\* C10: for a dataset of n >= 1 runs sorted ascending by median, the low
\* run is at index floor(0.05 n), the median run at n // 2 and the high run at
\* floor(0.95 n); the three indices are in 0..n-1 and the three runs' medians
\* are in ascending order; for medians 10, 20, 30 ms the median run is the
\* one of 20 ms.
C10_RepresentativeRuns ==
    \A j \in 1..Len(reports) :
        LET r == reports[j]
            n == r.size
        IN  /\ n >= 1
            /\ Len(r.medians) = n
            /\ \A i \in 1..(n - 1) : MillisLeq(r.medians[i], r.medians[i + 1])
            /\ 20 * r.low_p5_idx <= n /\ n < 20 * (r.low_p5_idx + 1)
            /\ 2 * r.median_idx <= n /\ n <= 2 * r.median_idx + 1
            /\ 100 * r.high_p95_idx <= 95 * n /\ 95 * n < 100 * (r.high_p95_idx + 1)
            /\ {r.low_p5_idx, r.median_idx, r.high_p95_idx} \subseteq 0..(n - 1)
            /\ r.low_median = r.medians[r.low_p5_idx + 1]
            /\ r.median_median = r.medians[r.median_idx + 1]
            /\ r.high_median = r.medians[r.high_p95_idx + 1]
            /\ MillisLeq(r.low_median, r.median_median)
            /\ MillisLeq(r.median_median, r.high_median)
            /\ r.medians = <<NanosToMillis(Ms10), NanosToMillis(Ms20), NanosToMillis(Ms30)>>
                  => r.median_median = NanosToMillis(Ms20)

C10_Witness ==
    /\ main_pc = "done"
    /\ gameplay_duration = None
    /\ datasets[1] = << <<GoodRow(Ms30, 1)>>, <<GoodRow(Ms10, 0)>>, <<GoodRow(Ms20, 0)>> >>
    /\ reports[1].medians = <<NanosToMillis(Ms10), NanosToMillis(Ms20), NanosToMillis(Ms30)>>
    /\ reports[1].median_median = NanosToMillis(Ms20)
    /\ reports[1].low_p5_idx = 0
    /\ reports[1].high_p95_idx = 2

(***************************************************************************)
(* Properties of the percentile table, checked under Spec.                 *)
(***************************************************************************)
\* lines 130-131 on the result under construction
Median ==
    P50([percentile_frametime_ms |-> percentile_frametime_ms])

\* the j-th smallest retained frame time, j in 1..len(raw_frametimes)
OrderStat(j) ==
    CHOOSE v \in {raw_frametimes[i] : i \in 1..Len(raw_frametimes)} :
        /\ Cardinality({i \in 1..Len(raw_frametimes) : raw_frametimes[i] < v}) < j
        /\ j <= Cardinality({i \in 1..Len(raw_frametimes) : raw_frametimes[i] <= v})

\* whole nanoseconds of a millisecond value
WholeNanos(m) == m.whole * NonosPerMilli + m.nanos

\* C11: for every run with at least one retained frame,
\* percentile_frametime_ms has exactly 100 entries, for p = 0..99; entry p is
\* the linear interpolation between the order statistics around the rank
\* p / 100 * (n - 1); the entries never decrease; and median() is entry 50,
\* the median of the retained frame times.
C11_PercentileTable ==
    (pc = "returned" /\ raw_frametimes # <<>>) =>
        LET t  == percentile_frametime_ms
            n  == Len(raw_frametimes)
            os == [j \in 1..Len(raw_frametimes) |-> OrderStat(j)]
        IN  /\ DOMAIN t = 0..99
            /\ Cardinality(DOMAIN t) = 100
            /\ \A p \in 0..98 : MillisLeq(t[p], t[p + 1])
            /\ \A p \in 0..99 :
                  LET lo    == (p * (n - 1)) \div 100
                      k     == (p * (n - 1)) % 100
                      below == os[lo + 1]
                      above == os[Min(lo + 2, n)]
                      d     == above - below
                  IN  /\ MillisLeq(NanosToMillis(below), t[p])
                      /\ MillisLeq(t[p], NanosToMillis(above))
                      /\ t[p].cents \in 0..99
                      \* (t[p] in ns - below) * 100 = k * d, in two parts
                      /\ 100 * (WholeNanos(t[p]) - below - k * (d \div 100)) + t[p].cents
                            = k * (d % 100)
            /\ Median = t[50]
            /\ Median.cents \in {0, 50}
            /\ 2 * WholeNanos(Median) + (IF Median.cents = 50 THEN 1 ELSE 0)
                  = os[(n + 1) \div 2] + os[(n + 2) \div 2]

C11_Witness ==
    /\ pc = "returned"
    /\ Len(raw_frametimes) = 2
    /\ raw_frametimes[1] > raw_frametimes[2]
    /\ MillisLess(percentile_frametime_ms[0], percentile_frametime_ms[50])
    /\ MillisLess(percentile_frametime_ms[50], percentile_frametime_ms[99])
    /\ percentile_frametime_ms[0] = NanosToMillis(raw_frametimes[2])
    /\ Median = percentile_frametime_ms[50]

(***************************************************************************)
(* The empty run, checked under Spec.                                      *)
(***************************************************************************)
\* the drop-front threshold is set and the frames that were parsed and kept
\* by the state filter last less than it altogether
ShorterThanDropFront ==
    /\ drop_first_seconds # None
    /\ SumSeq(KeptTimes) < drop_first_seconds[1] * NanosPerSecond

\* C12: when parsing and state filtering leave at least one frame, the
\* frame list is empty after the drop-front step exactly when the total
\* duration of all frames is strictly less than drop_first_seconds * 1e9; the
\* duration cap never empties a list that has a frame (it keeps the first
\* one), so the same holds after it; and in that case nothing stops the
\* percentile / average computation, which runs on zero frames.
C12_EmptyRunByDropFrontOnly ==
    (AfterParse /\ KeptTimes # <<>>) =>
        /\ pc = "parsed" => raw_frametimes # <<>>
        /\ pc # "parsed" => (raw_frametimes = <<>> <=> ShorterThanDropFront)
        /\ (pc = "capped" /\ raw_frametimes = <<>>) => ENABLED StatsEmpty
        /\ (Returned /\ raw_frametimes = <<>>) =>
              /\ average_frametime_ms = NaN
              /\ percentile_frametime_ms = NaNTable

C12_Witness ==
    /\ pc = "returned"
    /\ KeptTimes # <<>>
    /\ gameplay_duration # None
    /\ ShorterThanDropFront
    /\ raw_frametimes = <<>>
    /\ percentile_frametime_ms = NaNTable

====
